---- MODULE Spec2Model ----
(***************************************************************************)
(* Scoped initialization and cleanup: openvpn/init/scoped_acq.hpp.         *)
(*                                                                         *)
(* One ScopedAcqStack<Elements...> object is followed from its declaration *)
(* through its constructor (rev_elts / stk_builder), the scope it guards,  *)
(* and its destructor, together with the path taken when the constructor   *)
(* of one of the guards throws.  Positions are 0-based as in the templates;*)
(* TLA+ sequences are 1-based, so position I of Elements is Elements[I+1]. *)
(***************************************************************************)
EXTENDS Integers, Sequences, FiniteSets

\* Longest guard list explored.
MaxN == 3
\* Most events the guarded scope itself logs.
MaxScope == 1

\* Guard kinds: the three resources of test_scoped_acq.cpp.
Kinds == {"Res1_RAII", "Res2_RAII", "Res3_RAII"}

\* All guard lists Elements... of length 0..MaxN, kinds may repeat.
GuardLists == UNION {[1..n -> Kinds] : n \in 0..MaxN}

\* Order in which a destroyed std::deque destroys the elements it still
\* holds.  The language leaves it open; the libraries differ.
DequeDtorOrders == {"front_first", "back_first"}

\* Most ScopedAcqStack instances built one after the other.
MaxInstances == 2

\* Guard kinds of scoped_raii.hpp.
RAIIKinds == {"OpenSSL_RAIIinit", "OpenSSL_RAIIexplicit", "Base64_RAII",
              "Time_RAII", "Compress_RAII"}

\* Guard lists over the kinds of scoped_raii.hpp.
RAIILists == UNION {[1..n -> RAIIKinds] : n \in 0..MaxN}

\* What the #if lines of scoped_raii.hpp read: USE_OPENSSL, and USE_MINICRYPTO
\* on OPENVPN_ARCH_x86_64 or OPENVPN_ARCH_i386.
Builds == [USE_OPENSSL : BOOLEAN, USE_MINICRYPTO_x86 : BOOLEAN]

VARIABLES
    Elements,     \* template parameter pack of ScopedAcqStack
    deque_dtor,   \* element order of ~deque() in this build
    build,        \* preprocessor configuration of this build
    Qstart,       \* length of Q at the start of each instance's scope, oldest first
    pc,           \* position of the one thread of control
    todo,         \* indices whose stk_builder constructor body is still to run
    sacq,         \* local unique_ptr of the running stk_builder constructor (0 = null)
    rev_stack,    \* rev.stack : sas_stk::stack of the temporary builder
    stack_,       \* ScopedAcqStack::stack_
    heap,         \* guard objects created by new, in creation order
    exc,          \* an exception is propagating out of the constructor
    Q             \* observable side-effect log (RAII_checker::Q)

vars == <<Elements, deque_dtor, build, Qstart, pc, todo, sacq, rev_stack, stack_, heap, exc, Q>>

N == Len(Elements)

----------------------------------------------------------------------------
\* Compile-time helpers

\* sas_size<ScopedAcqStack<Elements...>>::value
sas_size(T) == Len(T)

\* A recursion that counts I down without peeling the head: always Head.
sas_element_no_peel(I, T) ==
    IF T = <<>> THEN "sas index out of range" ELSE Head(T)

\* A lookup that counts positions from the tail of the list.
sas_element_from_tail(I, T) ==
    IF T = <<>> THEN "sas index out of range" ELSE T[Len(T) - I]

\* sas_element<I, ScopedAcqStack<Head, Tail...>>::type : peel the head I times.
RECURSIVE sas_element(_, _)
sas_element(I, T) ==
    IF T = <<>> THEN "sas index out of range"
    ELSE IF I = 0 THEN Head(T)
    ELSE sas_element(I - 1, Tail(T))

\* A bug that prepends I-1 instead of appending it: the list comes out 0..N-1.
RECURSIVE rev_elts_prepend(_, _)
rev_elts_prepend(I, Is) ==
    IF I = 0 THEN Is ELSE rev_elts_prepend(I - 1, <<I - 1>> \o Is)

\* rev_elts<T, I, Is...> : rev_elts<T, I-1, Is..., I-1>, and
\* rev_elts<T, 0, Is...> : stk_builder<T, Is...>.  The value is the index
\* list handed to stk_builder.
RECURSIVE rev_elts(_, _)
rev_elts(I, Is) ==
    IF I = 0 THEN Is ELSE rev_elts(I - 1, Append(Is, I - 1))

\* stk_builder<T, Is...> is only declared for an empty index list; both
\* specializations need at least one index.
stk_builder_complete(Is) == Len(Is) >= 1

\* A bug that runs the constructor body before the base-class part.
stk_builder_body_first(Is) == Is

\* stk_builder<T, I, Is...> derives from stk_builder<T, Is...>: the base
\* class constructor runs first, then the body for I.  The value is the
\* order in which the constructor bodies run.
RECURSIVE stk_builder(_)
stk_builder(Is) ==
    IF Len(Is) <= 1 THEN Is
    ELSE stk_builder(Tail(Is)) \o <<Head(Is)>>

----------------------------------------------------------------------------
\* Run-time helpers

\* A pop that destroys the handle under the top one and drops both.
pop_skip(s) ==
    IF Len(s) >= 2
    THEN [handle |-> s[Len(s) - 1], rest |-> SubSeq(s, 1, Len(s) - 2)]
    ELSE [handle |-> s[Len(s)], rest |-> <<>>]

\* A queue-like pop that removes the oldest handle.
pop_front(s) == [handle |-> s[1], rest |-> Tail(s)]

\* std::stack::pop : destroys the top (last pushed) handle.
pop(s) == [handle |-> s[Len(s)], rest |-> SubSeq(s, 1, Len(s) - 1)]

\* A copy where a move is meant: the source keeps its handles.
copy_stack(src) == [dst |-> src, src |-> src]

\* The move left out: stack_ stays empty and rev keeps every handle.
move_stack_omitted(src) == [dst |-> <<>>, src |-> src]

\* stack_ = std::move(rev.stack) : the handles change container.
move_stack(src) == [dst |-> src, src |-> <<>>]

\* A destructor that forgets the handles instead of destroying them.
deque_dtor_step_leak(s, order) == [handle |-> 0, rest |-> <<>>]

\* One element destroyed by ~deque(), in the order of this build.
deque_dtor_step(s, order) ==
    IF order = "front_first"
    THEN [handle |-> s[1], rest |-> Tail(s)]
    ELSE [handle |-> s[Len(s)], rest |-> SubSeq(s, 1, Len(s) - 1)]

\* Guards whose destructors all call their subsystem's cleanup.
release_call_all(K, b) ==
    CASE K = "OpenSSL_RAIIinit"     -> <<"OPENSSL_cleanup">>
      [] K = "OpenSSL_RAIIexplicit" -> <<"OPENSSL_cleanup">>
      [] K = "Base64_RAII"          -> <<"base64_uninit_static">>
      [] K = "Time_RAII"            -> <<"Time::reset_base">>
      [] K = "Compress_RAII"        -> <<"CompressContext::init_static">>
      [] OTHER                      -> <<>>

\* External subsystem calls made by the destructor of a guard of kind K in
\* build b.
release_call(K, b) ==
    CASE K = "OpenSSL_RAIIexplicit" ->
           IF b.USE_OPENSSL THEN <<"OPENSSL_cleanup">> ELSE <<>>
      [] K = "Base64_RAII"          -> <<"base64_uninit_static">>
      [] OTHER                      -> <<>>

\* External subsystem calls made by the constructor of a guard of kind K in
\* build b.
acquire_call(K, b) ==
    CASE K = "OpenSSL_RAIIinit"     ->
           IF b.USE_OPENSSL \/ b.USE_MINICRYPTO_x86 THEN <<"init_openssl">> ELSE <<>>
      [] K = "OpenSSL_RAIIexplicit" ->
           IF b.USE_OPENSSL THEN <<"OPENSSL_init_crypto">> ELSE <<>>
      [] K = "Base64_RAII"          -> <<"base64_init_static">>
      [] K = "Time_RAII"            -> <<"Time::reset_base">>
      [] K = "Compress_RAII"        -> <<"CompressContext::init_static">>
      [] OTHER                      -> <<>>

\* Log entries
Ev(e, i, k, o) == [ev |-> e, idx |-> i, kind |-> k, obj |-> o]

\* Number of events logged by the code inside the scope.
ScopeEvents == Cardinality({n \in DOMAIN Q : Q[n].ev = "scope"})

\* ~unique_ptr : delete the guard it points to; the guard's destructor is
\* the release side effect.  Null deletes nothing.
Release(h) ==
    IF h = 0
    THEN /\ heap' = heap
         /\ Q' = Q
    ELSE /\ heap' = [heap EXCEPT ![h].live = FALSE]
         /\ Q' = Append(Q, Ev("release", heap[h].idx, heap[h].kind, h))

----------------------------------------------------------------------------
\* The state before the first instance is declared, for a program whose
\* guard list is one of lists.
InitOver(lists) ==
    /\ Elements \in lists
    /\ deque_dtor \in DequeDtorOrders
    /\ build \in Builds
    /\ Qstart = <<0>>
    /\ pc = "unbuilt"
    /\ todo = <<>>
    /\ sacq = 0
    /\ rev_stack = <<>>
    /\ stack_ = <<>>
    /\ heap = <<>>
    /\ exc = FALSE
    /\ Q = <<>>

Init == InitOver(GuardLists)

\* A builder declared static: it is constructed by the first instance only,
\* later instances find its stack moved-from.
CtorEnter_static_rev ==
    /\ pc = "unbuilt"
    /\ LET Is == rev_elts(sas_size(Elements), <<>>) IN
         IF stk_builder_complete(Is)
         THEN /\ todo' = IF heap = <<>> THEN stk_builder(Is) ELSE <<>>
              /\ pc' = "builder"
         ELSE /\ todo' = <<>>
              /\ pc' = "ill_formed"
    /\ UNCHANGED <<Elements, deque_dtor, build, Qstart, sacq, rev_stack, stack_, heap, exc, Q>>

\* ScopedAcqStack() entry: stack_ is default-constructed, then
\* rev_elts<type, sizeof...(Elements)> rev; starts with the virtual base
\* sas_stk.  The declaration needs stk_builder<T, Is...> to be complete.
CtorEnter ==
    /\ pc = "unbuilt"
    /\ LET Is == rev_elts(sas_size(Elements), <<>>) IN
         IF stk_builder_complete(Is)
         THEN /\ todo' = stk_builder(Is)
              /\ pc' = "builder"
         ELSE /\ todo' = <<>>
              /\ pc' = "ill_formed"
    /\ UNCHANGED <<Elements, deque_dtor, build, Qstart, sacq, rev_stack, stack_, heap, exc, Q>>

\* auto sacq = std::unique_ptr<ScopedAcq>(new typename sas_element<I, T>::type);
\* The guard's constructor is its acquire side effect; it may throw.
BuilderNew ==
    /\ pc = "builder"
    /\ todo # <<>>
    /\ LET I == Head(todo)
           K == sas_element(I, Elements)
       IN \/ /\ heap' = Append(heap, [kind |-> K, idx |-> I, live |-> TRUE])
             /\ sacq' = Len(heap) + 1
             /\ Q' = Append(Q, Ev("acquire", I, K, Len(heap) + 1))
             /\ pc' = "push"
             /\ UNCHANGED exc
          \/ /\ Q' = Append(Q, Ev("acquire_failed", I, K, 0))
             /\ exc' = TRUE
             /\ pc' = "sas_stk_dtor"
             /\ UNCHANGED <<heap, sacq>>
    /\ UNCHANGED <<Elements, deque_dtor, build, Qstart, todo, rev_stack, stack_>>

\* stack.push(std::move(sacq)); and the end of this constructor body.
BuilderPush ==
    /\ pc = "push"
    /\ rev_stack' = Append(rev_stack, sacq)
    /\ sacq' = 0
    /\ todo' = Tail(todo)
    /\ pc' = "builder"
    /\ UNCHANGED <<Elements, deque_dtor, build, Qstart, stack_, heap, exc, Q>>

\* stack_ = std::move(rev.stack); then rev goes out of scope.
CtorMove ==
    /\ pc = "builder"
    /\ todo = <<>>
    /\ LET m == move_stack(rev_stack) IN
         /\ stack_' = m.dst
         /\ rev_stack' = m.src
    /\ pc' = "sas_stk_dtor"
    /\ UNCHANGED <<Elements, deque_dtor, build, Qstart, todo, sacq, heap, exc, Q>>

\* ~sas_stk : the deque under rev.stack destroys the handles it still holds.
\* It runs when rev leaves scope and when a constructor body has thrown.
SasStkDtorStep ==
    /\ pc = "sas_stk_dtor"
    /\ rev_stack # <<>>
    /\ LET d == deque_dtor_step(rev_stack, deque_dtor) IN
         /\ rev_stack' = d.rest
         /\ Release(d.handle)
    /\ UNCHANGED <<Elements, deque_dtor, build, Qstart, pc, todo, sacq, stack_, exc>>

\* rev is gone: the constructor returns, or the exception reaches the caller
\* (stack_, still empty, is destroyed on the way and the destructor of
\* ScopedAcqStack never runs).
SasStkDtorDone ==
    /\ pc = "sas_stk_dtor"
    /\ rev_stack = <<>>
    /\ pc' = IF exc THEN "failed" ELSE "built"
    /\ UNCHANGED <<Elements, deque_dtor, build, Qstart, todo, sacq, rev_stack, stack_, heap, exc, Q>>

\* Code inside the guarded scope logs an event (push_message in the test).
InScope ==
    /\ pc = "built"
    /\ ScopeEvents < MaxScope
    /\ Q' = Append(Q, Ev("scope", 0, "inside the scope", 0))
    /\ UNCHANGED <<Elements, deque_dtor, build, Qstart, pc, todo, sacq, rev_stack, stack_, heap, exc>>

\* The scope ends: ~ScopedAcqStack() is entered.
ScopeExit ==
    /\ pc = "built"
    /\ pc' = "dtor"
    /\ UNCHANGED <<Elements, deque_dtor, build, Qstart, todo, sacq, rev_stack, stack_, heap, exc, Q>>

\* while (!stack_.empty()) stack_.pop();
DtorPop ==
    /\ pc = "dtor"
    /\ stack_ # <<>>
    /\ LET p == pop(stack_) IN
         /\ stack_' = p.rest
         /\ Release(p.handle)
    /\ UNCHANGED <<Elements, deque_dtor, build, Qstart, pc, todo, sacq, rev_stack, exc>>

\* The loop ends; the empty stack_ is destroyed.
DtorExit ==
    /\ pc = "dtor"
    /\ stack_ = <<>>
    /\ pc' = "destroyed"
    /\ UNCHANGED <<Elements, deque_dtor, build, Qstart, todo, sacq, rev_stack, stack_, heap, exc, Q>>

Next ==
    \/ CtorEnter
    \/ BuilderNew
    \/ BuilderPush
    \/ CtorMove
    \/ SasStkDtorStep
    \/ SasStkDtorDone
    \/ InScope
    \/ ScopeExit
    \/ DtorPop
    \/ DtorExit

Spec == Init /\ [][Next]_vars

\* A second scope with a ScopedAcqStack over the same list is entered after
\* the first one was left.
Rebuild ==
    /\ pc = "destroyed"
    /\ Len(Qstart) < MaxInstances
    /\ Qstart' = Append(Qstart, Len(Q))
    /\ pc' = "unbuilt"
    /\ UNCHANGED <<Elements, deque_dtor, build, todo, sacq, rev_stack, stack_, heap, exc, Q>>

NextSeq ==
    \/ Next
    \/ Rebuild

\* Instances built and destroyed one after the other.
SpecSeq == Init /\ [][NextSeq]_vars

\* The single thread keeps running: a destructor that can take a step takes it.
FairSpec == Spec /\ WF_vars(DtorPop) /\ WF_vars(DtorExit)

\* The same lifecycle over the guard kinds of scoped_raii.hpp.
InitRAII == InitOver(RAIILists)
SpecRAII == InitRAII /\ [][Next]_vars

TypeOK ==
    /\ Elements \in GuardLists \cup RAIILists
    /\ build \in Builds
    /\ Len(Qstart) \in 1..MaxInstances
    /\ deque_dtor \in DequeDtorOrders
    /\ pc \in {"unbuilt", "ill_formed", "builder", "push", "sas_stk_dtor",
               "failed", "built", "dtor", "destroyed"}
    /\ exc \in BOOLEAN
    /\ sacq \in 0..Len(heap)

----------------------------------------------------------------------------
\* Reading the log

AcqEvs == {"acquire", "acquire_failed"}

\* Log positions of the acquire / release side effect of the guard at position i.
Acq(i) == {n \in DOMAIN Q : Q[n].ev = "acquire" /\ Q[n].idx = i}
Rel(i) == {n \in DOMAIN Q : Q[n].ev = "release" /\ Q[n].idx = i}

\* Log positions at which an acquire failed, and the positions of Elements
\* at which it did.
FailedAt == {n \in DOMAIN Q : Q[n].ev = "acquire_failed"}
FailedIdx == {Q[n].idx : n \in FailedAt}

\* The log as (event, position) pairs.
Trace == [n \in DOMAIN Q |-> <<Q[n].ev, Q[n].idx>>]

\* How many handles of a container point to guard object o.
Count(s, o) == Cardinality({n \in DOMAIN s : s[n] = o})

----------------------------------------------------------------------------
\* C1: construction acquires in declared order: the acquire of position i is
\* logged strictly before the acquire of every position j > i, each acquire
\* is of the kind declared at its position, no position is skipped, and a
\* built stack has acquired all N positions.
C1_AcquireInDeclaredOrder ==
    /\ \A m, n \in DOMAIN Q :
         (Q[m].ev \in AcqEvs /\ Q[n].ev \in AcqEvs /\ Q[m].idx < Q[n].idx) => m < n
    /\ \A n \in DOMAIN Q :
         Q[n].ev \in AcqEvs =>
           /\ Q[n].idx \in 0..(N - 1)
           /\ Q[n].kind = Elements[Q[n].idx + 1]
           /\ \A i \in 0..(Q[n].idx - 1) : \E m \in Acq(i) : m < n
    /\ pc = "built" => \A i \in 0..(N - 1) : Acq(i) # {}

C1_Witness ==
    /\ pc = "built"
    /\ N >= 2
    /\ \A i \in 0..(N - 1) : Acq(i) # {}

\* C2: destroying a fully built stack releases in the exact reverse of the
\* acquire order: the release of position j is logged strictly before the
\* release of every position i < j, nothing is released before every later
\* position has been, and a destroyed stack has released all N positions.
C2_ReleaseInReverseOrder ==
    ~exc =>
      /\ \A m, n \in DOMAIN Q :
           (Q[m].ev = "release" /\ Q[n].ev = "release" /\ Q[m].idx > Q[n].idx) => m < n
      /\ \A n \in DOMAIN Q :
           Q[n].ev = "release" =>
             \A j \in (Q[n].idx + 1)..(N - 1) : \E m \in Rel(j) : m < n
      /\ pc = "destroyed" => \A i \in 0..(N - 1) : Rel(i) # {}

C2_Witness ==
    /\ pc = "destroyed"
    /\ N >= 2
    /\ \A i \in 0..(N - 1) : Rel(i) # {}

\* C3: a successful construct followed by destroy acquires every position
\* exactly once and releases every position exactly once: never twice on the
\* way, and after destroy every guard object is released and none is held.
C3_ExactlyOnce ==
    ~exc =>
      /\ \A i \in 0..(N - 1) : Cardinality(Acq(i)) <= 1 /\ Cardinality(Rel(i)) <= 1
      /\ pc \in {"built", "dtor", "destroyed"} =>
           /\ \A i \in 0..(N - 1) : Cardinality(Acq(i)) = 1
           /\ Len(heap) = N
      /\ pc = "destroyed" =>
           /\ \A i \in 0..(N - 1) : Cardinality(Rel(i)) = 1
           /\ \A o \in DOMAIN heap : ~heap[o].live
           /\ stack_ = <<>> /\ rev_stack = <<>> /\ sacq = 0

C3_Witness ==
    /\ pc = "destroyed"
    /\ N = 3
    /\ Elements[1] = Elements[3]
    /\ \A i \in 0..2 : Cardinality(Acq(i)) = 1 /\ Cardinality(Rel(i)) = 1

\* C4: when the acquire at position k fails, positions 0..k-1 are released
\* in reverse order (k-1 first, 0 last) before the failure reaches the caller.
C4_RollbackInReverseOrder ==
    pc = "failed" =>
      /\ \A k \in FailedIdx : \A i \in 0..(k - 1) : Rel(i) # {}
      /\ \A m, n \in DOMAIN Q :
           (Q[m].ev = "release" /\ Q[n].ev = "release" /\ Q[m].idx > Q[n].idx) => m < n

\* C5: a failed construction leaks nothing and retains nothing: when the
\* failure reaches the caller every guard at 0..k-1 has been released exactly
\* once, no container holds a handle, and the instance never becomes built,
\* so its destructor never releases anything again.
C5_FailedConstructionLeaksNothing ==
    exc =>
      /\ pc \in {"sas_stk_dtor", "failed"}
      /\ stack_ = <<>>
      /\ \A i \in 0..(N - 1) : Cardinality(Rel(i)) <= 1
      /\ pc = "failed" =>
           /\ \A k \in FailedIdx : \A i \in 0..(k - 1) :
                Cardinality(Acq(i)) = 1 /\ Cardinality(Rel(i)) = 1
           /\ \A o \in DOMAIN heap : ~heap[o].live
           /\ rev_stack = <<>> /\ sacq = 0

C5_Witness ==
    /\ pc = "failed"
    /\ FailedIdx = {2}
    /\ Cardinality(Rel(0)) = 1 /\ Cardinality(Rel(1)) = 1

\* C6: when the acquire at position k fails, no acquire at a position j > k
\* is ever invoked, nothing is acquired after the failure, and the failure
\* goes to the caller (the instance is never built).  For three guards with
\* the second failing the log is acquire 0, failed acquire 1, release 0.
C6_NoAcquireAfterFailure ==
    /\ \A n \in FailedAt :
         /\ \A m \in DOMAIN Q : Q[m].ev \in AcqEvs => Q[m].idx <= Q[n].idx
         /\ \A m \in DOMAIN Q : (Q[m].ev \in AcqEvs /\ m # n) => m < n
         /\ exc
         /\ pc \in {"sas_stk_dtor", "failed"}
    /\ (pc = "failed" /\ N = 3 /\ FailedIdx = {1}) =>
         Trace = << <<"acquire", 0>>, <<"acquire_failed", 1>>, <<"release", 0>> >>

C6_Witness ==
    /\ pc = "failed"
    /\ N = 3
    /\ FailedIdx = {1}
    /\ Acq(2) = {}

\* C7: a stack over the empty guard list can be constructed and destroyed,
\* with no acquire and no release side effect.
C7_EmptyListConstructs ==
    N = 0 => /\ pc \in {"unbuilt", "builder", "sas_stk_dtor", "built", "dtor", "destroyed"}
             /\ Q = <<>>

\* C8: every event logged inside the scope comes after all N acquires and
\* before any release; while the instance is built all N guards are held and
\* nothing has been released.  For three guards the whole log is acquire
\* 0, 1, 2, the scope's event, release 2, 1, 0.
C8_ScopeInsideAcquireRelease ==
    /\ \A n \in DOMAIN Q :
         Q[n].ev = "scope" =>
           /\ \A i \in 0..(N - 1) : \E m \in Acq(i) : m < n
           /\ \A m \in DOMAIN Q : Q[m].ev = "release" => n < m
    /\ pc = "built" =>
         /\ \A m \in DOMAIN Q : Q[m].ev # "release"
         /\ Len(stack_) = N
         /\ \A h \in DOMAIN stack_ : stack_[h] \in DOMAIN heap /\ heap[stack_[h]].live
    /\ (pc = "destroyed" /\ N = 3 /\ ScopeEvents = 1) =>
         Trace = << <<"acquire", 0>>, <<"acquire", 1>>, <<"acquire", 2>>, <<"scope", 0>>,
                    <<"release", 2>>, <<"release", 1>>, <<"release", 0>> >>

C8_Witness ==
    /\ pc = "destroyed"
    /\ N = 3
    /\ ScopeEvents = 1

\* C9: after a successful construction stack_ holds exactly N handles and the
\* handle at depth i (0 = bottom) is a live guard of the kind declared at
\* position i, built for position i.
C9_StackMatchesDeclaration ==
    pc = "built" =>
      /\ Len(stack_) = N
      /\ \A i \in 0..(N - 1) :
           /\ stack_[i + 1] \in DOMAIN heap
           /\ heap[stack_[i + 1]].kind = Elements[i + 1]
           /\ heap[stack_[i + 1]].idx = i
           /\ heap[stack_[i + 1]].live

C9_Witness ==
    /\ pc = "built"
    /\ N = 3
    /\ Elements[1] # Elements[3]
    /\ Len(stack_) = 3

\* C10 as claimed: every constructed, not yet released guard is referenced by
\* exactly one handle held in rev.stack or stack_, never both, never none.
C10_OwnedByOneContainer ==
    \A o \in DOMAIN heap :
      heap[o].live => Count(rev_stack, o) + Count(stack_, o) = 1

\* C10 amended: every constructed, not yet released guard is referenced by
\* exactly one handle, and that handle is in exactly one of the constructor's
\* local sacq, rev.stack and stack_; a released guard is referenced by none.
C10_OwnedByOneHandle ==
    \A o \in DOMAIN heap :
      LET refs == Count(rev_stack, o) + Count(stack_, o) + (IF sacq = o THEN 1 ELSE 0)
      IN  IF heap[o].live THEN refs = 1 ELSE refs = 0

C10_Witness ==
    /\ pc = "push"
    /\ sacq # 0
    /\ heap[sacq].live
    /\ Count(rev_stack, sacq) = 0
    /\ Len(rev_stack) >= 1

----------------------------------------------------------------------------
\* The part of the log written during the r-th instance's scope, without the
\* events of the code inside the scope, as (event, position, kind) triples.
InstTrace(r) ==
    LET lo  == Qstart[r] + 1
        hi  == IF r < Len(Qstart) THEN Qstart[r + 1] ELSE Len(Q)
        seg == SelectSeq(SubSeq(Q, lo, hi), LAMBDA e : e.ev # "scope")
    IN  [n \in DOMAIN seg |-> <<seg[n].ev, seg[n].idx, seg[n].kind>>]

IsPrefix(s, t) == Len(s) <= Len(t) /\ s = SubSeq(t, 1, Len(s))

\* C11: two instances over the same guard list, built and destroyed one after
\* the other, log the same acquire/release sequence: every later instance's
\* sequence equals the first one's once it is destroyed, and follows it step
\* by step while it runs without a failure.
C11_SameTraceEachTime ==
    \A r \in 2..Len(Qstart) :
      /\ (r < Len(Qstart) \/ pc = "destroyed") =>
           /\ InstTrace(r) = InstTrace(1)
           /\ Len(InstTrace(r)) = 2 * N
      /\ ~exc => IsPrefix(InstTrace(r), InstTrace(1))

C11_Witness ==
    /\ pc = "destroyed"
    /\ Len(Qstart) = 2
    /\ N = 3
    /\ Len(InstTrace(2)) = 6
    /\ InstTrace(2) = InstTrace(1)

----------------------------------------------------------------------------
\* The external subsystem calls made so far, in call order; each with the
\* position of its guard, the side (acquire or release) and the log entry of
\* the constructor or destructor that made it.
RECURSIVE CallsOf(_)
CallsOf(n) ==
    IF n = 0 THEN <<>>
    ELSE LET e  == Q[n]
             cs == IF e.ev \in AcqEvs THEN acquire_call(e.kind, build)
                   ELSE IF e.ev = "release" THEN release_call(e.kind, build)
                   ELSE <<>>
         IN  CallsOf(n - 1) \o
             [c \in DOMAIN cs |->
                [call |-> cs[c], idx |-> e.idx, side |-> e.ev, at |-> n]]

ExtCalls == CallsOf(Len(Q))
CallNames == [c \in DOMAIN ExtCalls |-> ExtCalls[c].call]

\* C12: the guard declared first is released last: when destroy runs, the
\* release of position 0 comes after the release of every other position.
\* For ScopedAcqStack<OpenSSL_RAIIinit, Base64_RAII> init_openssl (where the
\* build calls it) comes before base64_init_static, and base64_uninit_static
\* comes before the OpenSSL guard is destroyed.
C12_FirstDeclaredReleasedLast ==
    ~exc =>
      /\ \A n \in Rel(0) :
           /\ \A m \in DOMAIN Q : (Q[m].ev = "release" /\ m # n) => m < n
           /\ \A j \in 1..(N - 1) : \E m \in Rel(j) : m < n
      /\ pc = "destroyed" => Rel(0) # {}
      /\ Elements = <<"OpenSSL_RAIIinit", "Base64_RAII">> =>
           /\ \A c, d \in DOMAIN ExtCalls :
                (ExtCalls[c].call = "init_openssl"
                   /\ ExtCalls[d].call = "base64_init_static") => c < d
           /\ \A n \in Rel(0) :
                \E c \in DOMAIN ExtCalls :
                  ExtCalls[c].call = "base64_uninit_static" /\ ExtCalls[c].at < n
           /\ pc = "destroyed" =>
                CallNames =
                  (IF build.USE_OPENSSL \/ build.USE_MINICRYPTO_x86
                   THEN <<"init_openssl">> ELSE <<>>)
                  \o <<"base64_init_static", "base64_uninit_static">>

C12_Witness ==
    /\ pc = "destroyed"
    /\ Elements = <<"OpenSSL_RAIIinit", "Base64_RAII">>
    /\ build.USE_OPENSSL
    /\ CallNames = <<"init_openssl", "base64_init_static", "base64_uninit_static">>
    /\ Rel(0) # {}

----------------------------------------------------------------------------
\* Release events logged so far.
Releases == {n \in DOMAIN Q : Q[n].ev = "release"}

\* C13: destroy of a fully built instance terminates; every pass of the loop
\* pops one handle, the one on top, and releases its guard; the instance ends
\* with stack_ empty and every guard released, after exactly N pops.
C13_DestroyTerminates ==
    /\ (pc = "dtor") ~> (pc = "destroyed")
    /\ [][(pc = "dtor" /\ stack_ # <<>>) =>
            LET top == stack_[Len(stack_)] IN
              /\ stack_' = SubSeq(stack_, 1, Len(stack_) - 1)
              /\ heap[top].live /\ ~heap'[top].live
              /\ Q' = Append(Q, Ev("release", heap[top].idx, heap[top].kind, top))]_vars
    /\ [](pc = "destroyed" =>
            /\ stack_ = <<>>
            /\ \A o \in DOMAIN heap : ~heap[o].live
            /\ Cardinality(Releases) = N
            /\ N >= 1)

C13_Witness ==
    /\ pc = "destroyed"
    /\ N = 3
    /\ stack_ = <<>>
    /\ Cardinality(Releases) = 3

----------------------------------------------------------------------------
\* Positions whose guard is acquired and not yet released.
Held == {heap[o].idx : o \in {x \in DOMAIN heap : heap[x].live}}

\* C14: in every state of construction, use, destruction and rollback the
\* held positions are a prefix of the declared list: when position j is held,
\* every position i < j is held too.
C14_HeldIsPrefix ==
    \A j \in Held : \A i \in 0..(j - 1) : i \in Held

\* The same, away from the rollback after a failed acquire.
C14_HeldIsPrefixWithoutFailure ==
    ~exc => C14_HeldIsPrefix

\* The same during a rollback that destroys the back of the deque first.
C14_HeldIsPrefixBackFirst ==
    deque_dtor = "back_first" => C14_HeldIsPrefix

----------------------------------------------------------------------------
\* The list N-1, N-2, ..., 0 and the list 0, 1, ..., N-1.
Descending(n) == [i \in 1..n |-> n - i]
Ascending(n) == [i \in 1..n |-> i - 1]

\* Positions of the guards in a container, bottom first.
Positions(s) == [h \in DOMAIN s |-> heap[s[h]].idx]

\* C15: for N >= 1 rev_elts<T, N> hands stk_builder the index list
\* N-1, ..., 1, 0; stk_builder<T, I, Is...> runs the part for Is... before the
\* body for I; composed, the constructor bodies run, and push, in the order
\* 0, 1, ..., N-1.
C15_ReversalGivesDeclaredPushOrder ==
    /\ N >= 1 => rev_elts(N, <<>>) = Descending(N)
    /\ \A k \in 1..N :
         LET Is == SubSeq(Descending(N), k, N) IN
           stk_builder(Is) = (IF Len(Is) = 1 THEN <<>> ELSE stk_builder(Tail(Is)))
                               \o <<Head(Is)>>
    /\ pc \in {"builder", "push"} =>
         /\ Positions(rev_stack) \o todo = Ascending(N)
         /\ Positions(rev_stack) = Ascending(Len(rev_stack))
    /\ (pc = "built" /\ Len(Qstart) = 1) =>
         LET acqs == SelectSeq(Q, LAMBDA e : e.ev = "acquire")
         IN  [n \in DOMAIN acqs |-> acqs[n].idx] = Ascending(N)

C15_Witness ==
    /\ pc = "builder"
    /\ N = 3
    /\ todo = <<>>
    /\ Positions(rev_stack) = <<0, 1, 2>>
    /\ rev_elts(N, <<>>) = <<2, 1, 0>>

----------------------------------------------------------------------------
\* C16: index lookup on the declared list agrees with list indexing: sas_size
\* of a list of N kinds is N, sas_element<I, list> is the kind declared at
\* position I for every I below N, also with repeated kinds, and every guard
\* the builder has constructed is of the kind declared at its position.
C16_LookupIsIndexing ==
    /\ sas_size(Elements) = Cardinality(DOMAIN Elements)
    /\ \A I \in 0..(sas_size(Elements) - 1) :
         sas_element(I, Elements) = Elements[I + 1]
    /\ \A o \in DOMAIN heap : heap[o].kind = Elements[heap[o].idx + 1]

C16_Witness ==
    /\ pc = "push"
    /\ N = 3
    /\ Elements[1] = Elements[3]
    /\ Elements[2] # Elements[1]
    /\ heap[sacq].idx = 2
    /\ heap[sacq].kind = Elements[3]

----------------------------------------------------------------------------
\* C17: a successful construction releases nothing: the move assigns to an
\* empty stack_, transfers all N handles and leaves rev.stack empty, so the
\* destruction of rev deletes no guard, and no release is logged from the
\* start of construction until destroy begins.
C17_ConstructionReleasesNothing ==
    /\ [](~exc =>
            /\ pc \in {"unbuilt", "builder", "push", "sas_stk_dtor", "built"} =>
                 /\ Releases = {}
                 /\ \A o \in DOMAIN heap : heap[o].live
            /\ pc \in {"unbuilt", "builder", "push"} => stack_ = <<>>
            /\ pc \in {"sas_stk_dtor", "built"} =>
                 /\ rev_stack = <<>>
                 /\ Len(stack_) = N
                 /\ Positions(stack_) = Ascending(N))
    /\ [][(pc = "builder" /\ todo = <<>>) =>
            /\ stack_ = <<>>
            /\ Len(rev_stack) = N
            /\ stack_' = rev_stack
            /\ rev_stack' = <<>>
            /\ heap' = heap /\ Q' = Q]_vars

C17_Witness ==
    /\ pc = "built"
    /\ N = 3
    /\ Releases = {}
    /\ rev_stack = <<>>
    /\ Positions(stack_) = <<0, 1, 2>>

----------------------------------------------------------------------------
\* Names of the external calls made by the constructor or destructor logged
\* at position n of Q.
CallsAt(n) ==
    LET cs == SelectSeq(ExtCalls, LAMBDA c : c.at = n)
    IN  [c \in DOMAIN cs |-> cs[c].call]

\* Names of the external calls made on one side (acquire or release).
SideCalls(sides) ==
    LET cs == SelectSeq(ExtCalls, LAMBDA c : c.side \in sides)
    IN  [c \in DOMAIN cs |-> cs[c].call]

RECURSIVE Flatten(_)
Flatten(ss) == IF ss = <<>> THEN <<>> ELSE Head(ss) \o Flatten(Tail(ss))

Reverse(s) == [i \in DOMAIN s |-> s[Len(s) + 1 - i]]

\* The calls the claim gives each kind, whatever the build.
ClaimedAcquire(K) ==
    CASE K = "OpenSSL_RAIIinit"     -> <<"init_openssl">>
      [] K = "OpenSSL_RAIIexplicit" -> <<"OPENSSL_init_crypto">>
      [] K = "Base64_RAII"          -> <<"base64_init_static">>
      [] K = "Time_RAII"            -> <<"Time::reset_base">>
      [] K = "Compress_RAII"        -> <<"CompressContext::init_static">>

ClaimedRelease(K) ==
    CASE K = "OpenSSL_RAIIexplicit" -> <<"OPENSSL_cleanup">>
      [] K = "Base64_RAII"          -> <<"base64_uninit_static">>
      [] K \in {"Time_RAII", "Compress_RAII", "OpenSSL_RAIIinit"} -> <<>>

\* The same with the OpenSSL calls only where the build compiles them in.
AmendedAcquire(K) ==
    IF K = "OpenSSL_RAIIinit" /\ ~(build.USE_OPENSSL \/ build.USE_MINICRYPTO_x86)
      THEN <<>>
    ELSE IF K = "OpenSSL_RAIIexplicit" /\ ~build.USE_OPENSSL THEN <<>>
    ELSE ClaimedAcquire(K)

AmendedRelease(K) ==
    IF K = "OpenSSL_RAIIexplicit" /\ ~build.USE_OPENSSL THEN <<>>
    ELSE ClaimedRelease(K)

\* C18 as claimed: releasing a Time_RAII, Compress_RAII or OpenSSL_RAIIinit
\* guard makes no external call, releasing Base64_RAII calls
\* base64_uninit_static and releasing OpenSSL_RAIIexplicit calls
\* OPENSSL_cleanup; on destroy the call trace holds only these release calls,
\* in reverse declared order, and each acquire call appears once per declared
\* position, in declared order.
C18_CallsAsClaimed ==
    /\ \A n \in DOMAIN Q :
         /\ Q[n].ev = "release" => CallsAt(n) = ClaimedRelease(Q[n].kind)
         /\ Q[n].ev \in AcqEvs => CallsAt(n) = ClaimedAcquire(Q[n].kind)
    /\ pc \in {"built", "dtor", "destroyed"} =>
         SideCalls(AcqEvs) = Flatten([i \in 1..N |-> ClaimedAcquire(Elements[i])])
    /\ pc = "destroyed" =>
         SideCalls({"release"}) =
           Flatten(Reverse([i \in 1..N |-> ClaimedRelease(Elements[i])]))

\* C18 amended: the same, where OPENSSL_init_crypto and OPENSSL_cleanup are
\* called only in a build that defines USE_OPENSSL, and init_openssl only in
\* a build that defines USE_OPENSSL, or USE_MINICRYPTO on x86_64 or i386; in
\* other builds those guards make no external call.
C18_CallsPerBuild ==
    /\ \A n \in DOMAIN Q :
         /\ Q[n].ev = "release" => CallsAt(n) = AmendedRelease(Q[n].kind)
         /\ Q[n].ev \in AcqEvs => CallsAt(n) = AmendedAcquire(Q[n].kind)
    /\ pc \in {"built", "dtor", "destroyed"} =>
         SideCalls(AcqEvs) = Flatten([i \in 1..N |-> AmendedAcquire(Elements[i])])
    /\ pc = "destroyed" =>
         SideCalls({"release"}) =
           Flatten(Reverse([i \in 1..N |-> AmendedRelease(Elements[i])]))

C18_Witness ==
    /\ pc = "destroyed"
    /\ Elements = <<"OpenSSL_RAIIexplicit", "Base64_RAII", "Time_RAII">>
    /\ build.USE_OPENSSL
    /\ CallNames = <<"OPENSSL_init_crypto", "base64_init_static", "Time::reset_base",
                     "base64_uninit_static", "OPENSSL_cleanup">>

====
